---- MODULE Spec2Model ----
(***************************************************************************)
(* Model of the FCA Handbook RAG chatbot backend (src/backend/app.py).     *)
(*                                                                         *)
(* The program state is the four module globals (vectorstore, qa_chain,    *)
(* embeddings, processed_files), the Chroma indexes they point to and the  *)
(* requests in flight, each with its temporary file.  Handlers are         *)
(* "async def" coroutines on one asyncio event loop: a handler keeps the   *)
(* loop from its first statement to its next await.  The handlers of       *)
(* upload_pdf and query_document are modelled statement group by statement *)
(* group, so that the absence of an await in them is something the model   *)
(* checks rather than assumes.                                             *)
(***************************************************************************)
EXTENDS Integers, Sequences, FiniteSets, TLC

(***************************************************************************)
(* Bounds of the model.                                                    *)
(***************************************************************************)
MaxReqs == 2      \* requests in flight at the same time
MaxFiles == 2     \* length of processed_files
MaxChunks == 4    \* entries of one index
MaxDir == 2       \* *.pdf files in internal_documents
MaxText == 12     \* length of the text the script splits, in 50 characters

(***************************************************************************)
(* Program constants.                                                      *)
(***************************************************************************)
chunk_size == 150
chunk_overlap == 25
retrieval_k == 3
PreviewMax == 200
script_chunk_size == 300
script_chunk_overlap == 50

(***************************************************************************)
(* Python strings, run-length encoded: a string is the sequence of its     *)
(* maximal runs [c |-> character, n |-> how many], so "AAA\n\nb" is         *)
(* <<[c |-> "A", n |-> 3], [c |-> "\n", n |-> 2], [c |-> "b", n |-> 1]>>.  *)
(* Two strings are equal iff their encodings are.                          *)
(***************************************************************************)
Min(S) == CHOOSE x \in S : \A y \in S : x <= y
Max(S) == CHOOSE x \in S : \A y \in S : x >= y

\* F of the value of v, with v evaluated once
With(v, F(_)) == CHOOSE r \in {F(w) : w \in {v}} : TRUE

\* c * n
Rep(c, n) == IF n = 0 THEN <<>> ELSE <<[c |-> c, n |-> n]>>

\* len(s)
length(s) ==
  LET sum[k \in 0..Len(s)] == IF k = 0 THEN 0 ELSE sum[k - 1] + s[k].n
  IN  sum[Len(s)]

\* a + b
Glue(a, b) ==
  IF a = <<>> THEN b
  ELSE IF b = <<>> THEN a
  ELSE IF a[Len(a)].c = b[1].c
  THEN SubSeq(a, 1, Len(a) - 1)
         \o <<[c |-> b[1].c, n |-> a[Len(a)].n + b[1].n]>> \o Tail(b)
  ELSE a \o b

cat(a, b) == With(a, LAMBDA x : With(b, LAMBDA y : Glue(x, y)))

\* s[:n]
prefix(s, n) ==
  LET upto(k) == length(SubSeq(s, 1, k))
      whole(k) == IF k = Len(s) \/ upto(k) = n THEN SubSeq(s, 1, k)
                  ELSE Append(SubSeq(s, 1, k),
                              [c |-> s[k + 1].c, n |-> n - upto(k)])
  IN  With(Max({k \in 0..Len(s) : upto(k) <= n}), whole)

Whitespace == {" ", "\n", "\t"}

\* str.strip()
Strip(s) ==
  With({k \in 1..Len(s) : s[k].c \notin Whitespace},
       LAMBDA ink : IF ink = {} THEN <<>> ELSE SubSeq(s, Min(ink), Max(ink)))

strip(s) == With(s, Strip)

\* CharacterTextSplitter's default separator, "\n\n"
separator == Rep("\n", 2)

\* separator.join(parts)
join(parts) ==
  LET j[k \in 0..Len(parts)] ==
        IF k = 0 THEN <<>>
        ELSE IF k = 1 THEN parts[1]
        ELSE cat(j[k - 1], cat(separator, parts[k]))
  IN  j[Len(parts)]

\* The runs of t that hold a match of the separator.  re.split takes the
\* leftmost non-overlapping matches: a run of n newlines holds n \div 2 of
\* them, and its last newline, if n is odd, starts the next piece
Matches(t) ==
  SelectSeq([k \in 1..Len(t) |-> k],
            LAMBDA k : t[k].c = "\n" /\ t[k].n >= length(separator))

\* _split_text_with_regex(text, separator, keep_separator=False):
\* re.split, then the empty pieces dropped
Pieces(t, ms) ==
  LET n == Len(ms)
      lead(k) == IF k > 1 THEN Rep("\n", t[ms[k - 1]].n % length(separator))
                 ELSE <<>>
      first(k) == IF k = 1 THEN 1 ELSE ms[k - 1] + 1
      last(k) == IF k = n + 1 THEN Len(t) ELSE ms[k] - 1
  IN  [k \in 1..(n + 1) |-> cat(lead(k), SubSeq(t, first(k), last(k)))]

split_text_with_regex(t) ==
  With(Matches(t), LAMBDA ms : SelectSeq(Pieces(t, ms), LAMBDA s : s # <<>>))

\* a _join_docs that neither strips nor drops what is blank
join_docs_unstripped(cur) == join(cur)

\* TextSplitter._join_docs: join, strip, None (here <<>>) when nothing is left
join_docs(cur) == strip(join(cur))

\* length of `cur` joined: the `total` that _merge_splits keeps
Total(cur) ==
  LET sum[k \in 0..Len(cur)] ==
        IF k = 0 THEN 0 ELSE sum[k - 1] + length(cur[k])
  IN  sum[Len(cur)]
        + (IF Len(cur) > 1 THEN (Len(cur) - 1) * length(separator) ELSE 0)

\* the while loop of _merge_splits: pop pieces off the front of current_doc
\* while it is longer than the overlap, or the next piece still does not fit
PopFront(cur, len, size, overlap) ==
  LET after(j) == SubSeq(cur, j + 1, Len(cur))
      sep(j) == IF j < Len(cur) THEN length(separator) ELSE 0
      again(j) ==
        With(Total(after(j)),
             LAMBDA total :
               total > overlap \/ (total + len + sep(j) > size /\ total > 0))
  IN  after(Min({j \in 0..Len(cur) : ~again(j)}))

\* TextSplitter._merge_splits(splits, separator): pieces are packed into chunks
\* of at most `size` characters; a single piece longer than `size` becomes a
\* chunk of its own, longer than `size`
\* `docs` with the chunk that _join_docs makes of `cur`, if it makes one
Emit(docs, cur) ==
  With(join_docs(cur),
       LAMBDA doc : IF doc # <<>> THEN Append(docs, doc) ELSE docs)

\* one round of the for loop of _merge_splits: st is (current_doc, docs)
\* before the piece d
MergeStep(st, d, size, overlap) ==
  LET sep == IF Len(st.cur) > 0 THEN length(separator) ELSE 0
  IN  IF Total(st.cur) + length(d) + sep > size /\ Len(st.cur) > 0
      THEN [docs |-> Emit(st.docs, st.cur),
            cur |-> Append(PopFront(st.cur, length(d), size, overlap), d)]
      ELSE [docs |-> st.docs, cur |-> Append(st.cur, d)]

merge_splits(splits, size, overlap) ==
  LET st[k \in 0..Len(splits)] ==
        IF k = 0 THEN [cur |-> <<>>, docs |-> <<>>]
        ELSE With(st[k - 1],
                  LAMBDA prev : MergeStep(prev, splits[k], size, overlap))
  IN  With(st[Len(splits)], LAMBDA end : Emit(end.docs, end.cur))

\* CharacterTextSplitter(chunk_size, chunk_overlap).split_text(text)
split_text(t, size, overlap) ==
  With(split_text_with_regex(t),
       LAMBDA splits : merge_splits(splits, size, overlap))

\* splitter.split_documents(docs): every page is split on its own, and each
\* chunk is a Document with the metadata of its page
split_documents(docs, size, overlap) ==
  LET chunks(doc) ==
        With(split_text(doc.page_content, size, overlap),
             LAMBDA texts :
               [i \in 1..Len(texts) |-> [doc EXCEPT !.page_content = texts[i]]])
      acc[k \in 0..Len(docs)] ==
        IF k = 0 THEN <<>> ELSE acc[k - 1] \o With(docs[k], chunks)
  IN  acc[Len(docs)]

(***************************************************************************)
(* The documents of the model.  A PDF is its filename, whether PyPDFLoader *)
(* can load it, and the text of its pages.                                 *)
(***************************************************************************)
Ellipsis == Rep(".", 3)

Loadable == {"a.pdf", "b.pdf", "blank.pdf", "sample.pdf"}
Corrupt == {"bad.pdf"}

\* the page texts of the files
Pages(d) ==
  CASE d = "a.pdf" ->
         <<cat(cat(Rep("A", 100), separator), cat(Rep("a", 97), Ellipsis))>>
    [] d = "b.pdf" -> <<cat(cat(Rep("B", 250), separator), Rep("b", 30))>>
    [] d = "blank.pdf" -> <<cat(cat(Rep(" ", 2), separator), Rep(" ", 1))>>
    [] d = "sample.pdf" -> <<Rep("S", 60)>>

\* PyPDFLoader(path).load() raises for a corrupt file
Loads(d) == d \in Loadable

\* PyPDFLoader(path).load(): one Document per page.  source_file is the
\* metadata key that load_internal_documents adds; "None": not there
loader_load(d) ==
  With(Pages(d),
       LAMBDA pages :
         [k \in 1..Len(pages) |->
            [page_content |-> pages[k], source |-> d, page |-> k - 1,
             source_file |-> "None"]])

\* splitter.split_documents(loader.load()) of each file, with the chunk_size
\* and chunk_overlap that app.py passes, worked out once
ChunkTable ==
  [d \in Loadable |->
     split_documents(loader_load(d), chunk_size, chunk_overlap)] @@ <<>>

Chunks(d) == ChunkTable[d]

\* c.page_content.strip() is truthy
NonBlank(c) == strip(c.page_content) # <<>>

\* what a request can carry and what the directories can hold
UploadNames == {"a.pdf", "b.pdf", "blank.pdf", "bad.pdf", "notes.txt"}
DirNames == {"a.pdf", "blank.pdf", "bad.pdf"}
RootFiles == {"", "sample.pdf"}

endswith_pdf(f) == f # "notes.txt"

\* glob.glob(internal_documents/*.pdf): the files there, in any order
DirListings ==
  {s \in UNION {[1..n -> DirNames] : n \in 0..MaxDir} :
     \A i, j \in 1..Len(s) : i # j => s[i] # s[j]}

(***************************************************************************)
(* State.                                                                  *)
(***************************************************************************)
VARIABLES
  vectorstore,      \* global: 0 for None, else the id of a Chroma index
  qa_chain,         \* global: 0 for None, else the index its retriever holds
  embeddings,       \* global: TRUE once initialize_embeddings has run
  processed_files,  \* global: list of filenames
  store,            \* the Chroma indexes: id -> entries in insertion order
  started,          \* "boot", "serving" or "failed" (startup_event raised)
  waiting,          \* the requests that wait for the event loop, each as
                    \* the handler that held the loop when it arrived
  pc,               \* per running handler: where it is
  loc,              \* per running handler: its locals
  loop,             \* the slot whose coroutine holds the event loop, or 0
  response,         \* the response of the request that finished last
  last,             \* history of that request: what glob listed for it, if
                    \* it listed; the handler it had to wait for, if any;
                    \* whether it left its temporary file on disk
  pure,             \* history: only successful uploads since Empty
  script            \* rag_chatbot.py, the script: where it is, the text it
                    \* loaded and the chunks it made of it

vars == <<vectorstore, qa_chain, embeddings, processed_files, store,
          started, waiting, pc, loc, loop, response, last, pure, script>>

globals == <<vectorstore, qa_chain, processed_files, store>>

Reqs == 1..MaxReqs
IndexIds == 1..(MaxReqs + 3)

\* history: the knowledge base as upload_pdf found it
NoPre == [vectorstore |-> 0, qa_chain |-> 0, files |-> <<>>, contents |-> <<>>]
NoLoc ==
  [file |-> "", tmp |-> FALSE, message |-> "", target |-> 0, todo |-> <<>>,
   pre |-> NoPre, behind |-> ""]

NoResponse == [op |-> "none", status |-> 0]

\* the script is not run
NoScript == [pc |-> "off", text |-> <<>>, size |-> 0, overlap |-> 0,
             chunks |-> <<>>]

NoLast == [globbed |-> <<>>, behind |-> "", tmp_left |-> FALSE]

Init ==
  /\ vectorstore = 0
  /\ qa_chain = 0
  /\ embeddings = FALSE
  /\ processed_files = <<>>
  /\ store = [i \in IndexIds |-> <<>>]
  /\ started = "boot"
  /\ waiting = <<>>
  /\ pc = [r \in Reqs |-> "idle"]
  /\ loc = [r \in Reqs |-> NoLoc]
  /\ loop = 0
  /\ response = NoResponse
  /\ last = NoLast
  /\ pure = TRUE
  /\ script = NoScript

(***************************************************************************)
(* The event loop.  A coroutine that has started runs until it finishes or *)
(* reaches an await; the handlers of app.py contain no await expression.   *)
(***************************************************************************)
\* had add_texts an await between two writes
Suspends_in_add_texts(label) == label = "insert"

\* had upload_pdf an await between its branch and create_vectorstore
Suspends_before_create(label) == label = "create"

\* no statement group of a handler starts with an await
Suspends(label) == FALSE

\* the event loop is free and starts the handler of a request, in the first
\* free slot: of the request that has waited longest if any waits, else of
\* one that arrives now
Begins(r) ==
  /\ started = "serving"
  /\ loop = 0
  /\ pc[r] = "idle"
  /\ \A q \in 1..(r - 1) : pc[q] # "idle"
  /\ waiting' = IF waiting # <<>> THEN Tail(waiting) ELSE <<>>

\* the handler in slot r is at `label` and takes its next step
Runnable(r, label) ==
  /\ pc[r] = label
  /\ loop = IF Suspends(label) THEN 0 ELSE r
  /\ UNCHANGED waiting

\* who holds the loop once slot r has moved to `label`
Holder(r, label) == IF label = "idle" \/ Suspends(label) THEN 0 ELSE r

Goto(r, label) ==
  /\ pc' = [pc EXCEPT ![r] = label]
  /\ loop' = Holder(r, label)

\* the handler of slot r returns or raises: the response goes out
\* the handler that the request now served had to wait for: "" if it arrived
\* at a free loop
Arrived == IF waiting # <<>> THEN Head(waiting) ELSE ""

\* kept for uploads only
Behind(r) == IF pc[r] = "idle" THEN "" ELSE loc[r].behind

Respond(r, resp, listing, left) ==
  /\ Goto(r, "idle")
  /\ loc' = [loc EXCEPT ![r] = NoLoc]
  /\ response' = resp
  /\ last' = [globbed |-> listing, behind |-> Behind(r), tmp_left |-> left]

Finish(r, resp) == Respond(r, resp, <<>>, FALSE)

\* upload_pdf raises after line 350: nothing unlinks the temporary file
FinishLeaving(r, resp) == Respond(r, resp, <<>>, TRUE)

\* an index lives as long as a global or a running handler refers to it
Live(vs, qa, lc) == ({vs, qa} \cup {lc[r].target : r \in Reqs}) \ {0}
Collect(st, live) == [i \in IndexIds |-> IF i \in live THEN st[i] ELSE <<>>]
\* the id of an index made in this step; `keep` are the indexes that outlive it
FreshId(keep) == Min(IndexIds \ keep)
Targets == Live(0, 0, loc)

Contents(vs) == IF vs = 0 THEN <<>> ELSE store[vs]

(***************************************************************************)
(* The functions of app.py.  Each takes the outcomes of the external calls *)
(* it makes (embOk: the embedding call returns; qaOk: building the chain   *)
(* returns) and yields what it returns or that it raised.                  *)
(***************************************************************************)
Stamp(c, filename) == [c EXCEPT !.source_file = filename]

\* the for loop of load_internal_documents over the first n files: all_chunks
all_chunks(dir, n) ==
  LET stamped(f) == [i \in 1..Len(Chunks(f)) |-> Stamp(Chunks(f)[i], f)]
      acc[k \in 0..n] ==
        IF k = 0 THEN <<>> ELSE acc[k - 1] \o stamped(dir[k])
  IN  acc[n]

\* load_internal_documents() when glob lists `dir`.  ret: the value returned;
\* appended: what it appended to processed_files; emb: whether
\* initialize_embeddings ran; texts: what the new index holds when ret.
\* The loop appends each filename once its file is loaded and split; the first
\* file that fails to load ends the loop and the function
load_internal_documents(dir, embOk) ==
  LET stop == Min({i \in 1..Len(dir) : ~Loads(dir[i])} \cup {Len(dir) + 1})
      raised(files, emb) ==
        [ret |-> FALSE, appended |-> files, emb |-> emb, texts |-> <<>>]
      embed(all_texts) ==
        IF all_texts = <<>> THEN raised(dir, FALSE)
        ELSE IF ~embOk THEN raised(dir, TRUE)
        ELSE [ret |-> TRUE, appended |-> dir, emb |-> TRUE, texts |-> all_texts]
  IN  IF dir = <<>> THEN raised(<<>>, FALSE)
      ELSE IF stop <= Len(dir) THEN raised(SubSeq(dir, 1, stop - 1), FALSE)
      ELSE With(SelectSeq(all_chunks(dir, Len(dir)), NonBlank), embed)

\* create_vectorstore(pdf_path): ok, or it raised
create_vectorstore(f, embOk) ==
  LET raised(emb) == [ok |-> FALSE, emb |-> emb, texts |-> <<>>]
      embed(texts) ==
        IF texts = <<>> \/ ~embOk THEN raised(TRUE)
        ELSE [ok |-> TRUE, emb |-> TRUE, texts |-> texts]
  IN  IF ~Loads(f) THEN raised(FALSE)
      ELSE IF Chunks(f) = <<>> THEN raised(FALSE)
      ELSE With(SelectSeq(Chunks(f), NonBlank), embed)

\* an add_to_vectorstore that adds the first chunk of the document only
add_first_chunk_only(f, existing, embOk) ==
  IF ~Loads(f) \/ existing = 0 THEN [ok |-> FALSE, texts |-> <<>>]
  ELSE IF Chunks(f) = <<>> \/ ~embOk THEN [ok |-> FALSE, texts |-> <<>>]
  ELSE [ok |-> TRUE, texts |-> <<Head(Chunks(f))>>]

\* add_to_vectorstore(pdf_path, existing_vectorstore) up to the point where
\* add_texts starts to write: the texts to add, or it raised.  add_texts
\* embeds all texts before it writes any, and Chroma rejects an empty batch
add_to_vectorstore(f, existing, embOk) ==
  IF ~Loads(f) \/ existing = 0 THEN [ok |-> FALSE, texts |-> <<>>]
  ELSE IF Chunks(f) = <<>> \/ ~embOk THEN [ok |-> FALSE, texts |-> <<>>]
  ELSE [ok |-> TRUE, texts |-> Chunks(f)]

\* create_qa_chain(vectorstore): the chain holds vectorstore.as_retriever(k=3)
create_qa_chain(vs, qaOk) ==
  IF vs = 0 \/ ~qaOk THEN [ok |-> FALSE, chain |-> 0] ELSE [ok |-> TRUE, chain |-> vs]

\* the retriever: the k nearest entries, all entries when there are fewer.
\* Which entries are nearest depends on the question: any k of them.  (They
\* are listed here in index order; nothing in this model reads their rank.)
Retrievals(entries) ==
  LET n == Len(entries)
      m == IF n < retrieval_k THEN n ELSE retrieval_k
  IN  {[j \in 1..m |-> entries[p[j]]] :
         p \in {q \in [1..m -> 1..n] : \A i, j \in 1..m : i < j => q[i] < q[j]}}

\* a preview that cuts without saying so
preview_without_marker(text) == prefix(text, PreviewMax)

\* doc.page_content[:200] + "..." if len(doc.page_content) > 200 else ...
preview(text) ==
  IF length(text) > PreviewMax
  THEN cat(prefix(text, PreviewMax), Ellipsis)
  ELSE text

\* doc.metadata
metadata(doc) ==
  [source |-> doc.source, page |-> doc.page, source_file |-> doc.source_file]

\* lines 394-400: the list of {"content": ..., "metadata": ...}
source_docs(docs) ==
  [j \in 1..Len(docs) |->
     [content |-> preview(docs[j].page_content), metadata |-> metadata(docs[j])]]

\* The outcomes an external call can have where the code reaches it; where it
\* does not, the outcome is immaterial and fixed
Outcomes(reached) == IF reached THEN BOOLEAN ELSE {TRUE}

\* create_vectorstore and add_to_vectorstore reach the embedding call
FileEmbeds(f) == Loads(f) /\ Chunks(f) # <<>>

\* the runs load_internal_documents can make: what glob lists and what the
\* function then does
LoadRuns ==
  {[dir |-> p[1], res |-> load_internal_documents(p[1], p[2])] :
     p \in DirListings \X BOOLEAN}

(***************************************************************************)
(* Requests.  A request that arrives while a handler holds the event loop   *)
(* waits for it.                                                           *)
(***************************************************************************)
Arrive ==
  /\ started = "serving"
  /\ loop # 0
  /\ Len(waiting) + Cardinality({r \in Reqs : pc[r] # "idle"}) < MaxReqs
  /\ waiting' = Append(waiting, IF pc[loop] = "invoke" THEN "query"
                                ELSE "upload")
  /\ UNCHANGED <<vectorstore, qa_chain, embeddings, processed_files, store,
                 started, pc, loc, loop, response, last, pure>>
  /\ UNCHANGED script

(***************************************************************************)
(* upload_pdf                                                              *)
(***************************************************************************)
UploadError(f) ==
  [op |-> "upload", status |-> 500, detail |-> "Error processing PDF",
   filename |-> f]

\* lines 344-352: the filename check, the temporary file, the branch
UploadBegin(r) ==
  /\ Begins(r)
  /\ \E f \in UploadNames :
       IF ~endswith_pdf(f)
       THEN /\ Finish(r, [op |-> "upload", status |-> 400,
                          detail |-> "Only PDF files are supported"])
            /\ UNCHANGED <<vectorstore, qa_chain, embeddings, processed_files,
                           store, started, pure>>
       ELSE /\ Len(processed_files) < MaxFiles
            /\ Len(Contents(vectorstore))
                 + (IF Loads(f) THEN Len(Chunks(f)) ELSE 0) <= MaxChunks
            /\ loc' = [loc EXCEPT ![r] =
                 [NoLoc EXCEPT !.file = f, !.tmp = TRUE, !.behind = Arrived,
                    !.pre = [vectorstore |-> vectorstore,
                             qa_chain |-> qa_chain,
                             files |-> processed_files,
                             contents |-> Contents(vectorstore)]]]
            /\ Goto(r, IF vectorstore = 0 THEN "create" ELSE "add")
            /\ UNCHANGED <<vectorstore, qa_chain, embeddings, processed_files,
                           store, started, response, last, pure>>
  /\ UNCHANGED script

\* lines 354-356: the first PDF makes a new index
UploadCreate(r) ==
  /\ Runnable(r, "create")
  /\ \E f \in {loc[r].file} :
     \E embOk \in Outcomes(FileEmbeds(f)) :
     \E res \in {create_vectorstore(f, embOk)} :
     \E id \in {FreshId(Live(0, qa_chain, loc))} :
           /\ embeddings' = (embeddings \/ res.emb)
           /\ IF res.ok
              THEN /\ vectorstore' = id
                   /\ processed_files' = <<f>>
                   /\ loc' = [loc EXCEPT ![r].message =
                        "PDF uploaded and vectorstore created successfully"]
                   /\ store' = Collect([store EXCEPT ![id] = res.texts],
                                       Live(id, qa_chain, loc))
                   /\ Goto(r, "chain")
                   /\ UNCHANGED <<qa_chain, started, response, last, pure>>
              ELSE /\ FinishLeaving(r, UploadError(f))
                   /\ UNCHANGED <<vectorstore, qa_chain, processed_files, store,
                                  started, pure>>
  /\ UNCHANGED script

\* line 359, up to the write of add_texts: load, split, embed
UploadAdd(r) ==
  /\ Runnable(r, "add")
  /\ \E f \in {loc[r].file} :
     \E embOk \in Outcomes(FileEmbeds(f)) :
     \E res \in {add_to_vectorstore(f, vectorstore, embOk)} :
           IF res.ok
           THEN /\ loc' = [loc EXCEPT ![r].target = vectorstore,
                                      ![r].todo = res.texts]
                /\ Goto(r, "insert")
                /\ UNCHANGED <<vectorstore, qa_chain, embeddings,
                               processed_files, store, started,
                               response, last, pure>>
           ELSE /\ FinishLeaving(r, UploadError(f))
                /\ UNCHANGED <<vectorstore, qa_chain, embeddings,
                               processed_files, store, started, pure>>
  /\ UNCHANGED script

\* add_texts writes the entries into the existing index, one after the other;
\* after the last one, lines 359-361
UploadInsert(r) ==
  /\ Runnable(r, "insert")
  /\ \E t \in {loc[r].target} :
     \E rest \in {Tail(loc[r].todo)} :
     \E written \in {[store EXCEPT ![t] = Append(@, Head(loc[r].todo))]} :
         IF rest = <<>>
         THEN /\ vectorstore' = t
              /\ processed_files' = Append(processed_files, loc[r].file)
              /\ loc' = [loc EXCEPT ![r].target = 0, ![r].todo = <<>>,
                   ![r].message =
                     "PDF uploaded and added to existing knowledge base"]
              /\ store' = Collect(written, Live(t, qa_chain, loc'))
              /\ Goto(r, "chain")
         ELSE /\ loc' = [loc EXCEPT ![r].todo = rest]
              /\ store' = written
              /\ Goto(r, "insert")
              /\ UNCHANGED <<vectorstore, processed_files>>
  /\ UNCHANGED <<qa_chain, embeddings, started, response, last, pure>>
  /\ UNCHANGED script

\* lines 364-378: the chain, the temporary file, the response
UploadChain(r) ==
  /\ Runnable(r, "chain")
  /\ \E f \in {loc[r].file} :
     \E qaOk \in BOOLEAN :
     \E res \in {create_qa_chain(vectorstore, qaOk)} :
           IF res.ok
           THEN /\ qa_chain' = res.chain
                /\ Finish(r, [op |-> "upload", status |-> 200,
                              message |-> loc[r].message, filename |-> f,
                              total_documents |-> Len(processed_files),
                              all_documents |-> processed_files])
                /\ store' = Collect(store, Live(vectorstore, res.chain, loc'))
                /\ UNCHANGED <<pure>>
           ELSE /\ FinishLeaving(r, UploadError(f))
                /\ pure' = FALSE
                /\ UNCHANGED <<qa_chain, store>>
  /\ UNCHANGED <<vectorstore, embeddings, processed_files, started>>
  /\ UNCHANGED script

(***************************************************************************)
(* query_document                                                          *)
(***************************************************************************)
NotInitialized ==
  [op |-> "query", status |-> 400,
   detail |-> "Please add documents to 'internal_documents' directory or upload a PDF first"]

\* line 410: the detail carries str(e) of what was raised
QueryError(e) ==
  [op |-> "query", status |-> 500, detail |-> <<"Error processing query", e>>]

\* the handler without its guard: every query goes on to the chain
QueryBegin_unguarded(r) ==
  /\ Begins(r)
  /\ Goto(r, "invoke")
  /\ UNCHANGED <<vectorstore, qa_chain, embeddings, processed_files, store,
                 started, loc, response, last, pure>>
  /\ UNCHANGED script

\* lines 384-388
QueryBegin(r) ==
  /\ Begins(r)
  /\ IF qa_chain = 0
     THEN Finish(r, NotInitialized)
     ELSE Goto(r, "invoke") /\ UNCHANGED <<loc, response, last>>
  /\ UNCHANGED <<vectorstore, qa_chain, embeddings, processed_files, store,
                 started, pure>>
  /\ UNCHANGED script

\* a handler that, when the generator raises, still answers with the sources
QueryInvoke_sources_only(r) ==
  /\ Runnable(r, "invoke")
  /\ qa_chain # 0
  /\ \E outcome \in {"ok", "retriever raises", "generator raises"} :
       IF outcome = "retriever raises"
       THEN Finish(r, QueryError(outcome))
       ELSE \E docs \in Retrievals(store[qa_chain]) :
              Finish(r, IF outcome = "ok"
                        THEN [op |-> "query", status |-> 200,
                              answer |-> "result",
                              source_documents |-> source_docs(docs)]
                        ELSE [op |-> "query", status |-> 200,
                              source_documents |-> source_docs(docs)])
  /\ UNCHANGED <<vectorstore, qa_chain, embeddings, processed_files, store,
                 started, pure>>
  /\ UNCHANGED script

\* lines 390-410: the chain retrieves from its index and generates
QueryInvoke(r) ==
  /\ Runnable(r, "invoke")
  /\ \E outcome \in {"ok", "retriever raises", "generator raises"} :
       IF qa_chain = 0 \/ outcome # "ok"
       THEN Finish(r, QueryError(IF qa_chain = 0 THEN "qa_chain is None"
                                 ELSE outcome))
       ELSE \E docs \in Retrievals(store[qa_chain]) :
              Finish(r, [op |-> "query", status |-> 200, answer |-> "result",
                         source_documents |-> source_docs(docs)])
  /\ UNCHANGED <<vectorstore, qa_chain, embeddings, processed_files, store,
                 started, pure>>
  /\ UNCHANGED script

(***************************************************************************)
(* clear_knowledge_base                                                    *)
(***************************************************************************)
\* a reset that forgets the index and the chain but keeps the registry
clear_keeps_registry(r) ==
  /\ Begins(r)
  /\ vectorstore' = 0
  /\ qa_chain' = 0
  /\ Finish(r, [op |-> "clear", status |-> 200,
                message |-> "Knowledge base cleared successfully",
                kb_status |-> "reset"])
  /\ store' = Collect(store, Live(0, 0, loc'))
  /\ pure' = TRUE
  /\ UNCHANGED <<processed_files, embeddings, started>>
  /\ UNCHANGED script

\* lines 414-424
clear_knowledge_base(r) ==
  /\ Begins(r)
  /\ vectorstore' = 0
  /\ qa_chain' = 0
  /\ processed_files' = <<>>
  /\ Finish(r, [op |-> "clear", status |-> 200,
                message |-> "Knowledge base cleared successfully",
                kb_status |-> "reset"])
  /\ store' = Collect(store, Live(0, 0, loc'))
  /\ pure' = TRUE
  /\ UNCHANGED <<embeddings, started>>
  /\ UNCHANGED script

(***************************************************************************)
(* health_check and list_documents                                         *)
(***************************************************************************)
\* lines 247-254, but for openai_configured, which reads the environment
health_body ==
  [op |-> "health", status |-> 200,
   vectorstore_initialized |-> vectorstore # 0,
   qa_chain_initialized |-> qa_chain # 0,
   processed_files |-> processed_files,
   internal_docs_loaded |-> Len(processed_files) > 0]

health_check(r) ==
  /\ Begins(r)
  /\ Finish(r, health_body)
  /\ UNCHANGED <<vectorstore, qa_chain, embeddings, processed_files, store,
                 started, pure>>
  /\ UNCHANGED script

\* lines 429-433
documents_body ==
  [op |-> "documents", status |-> 200,
   documents |-> processed_files,
   count |-> Len(processed_files),
   vectorstore_initialized |-> vectorstore # 0]

\* a listing that empties the registry it has listed
list_documents_forgets(r) ==
  /\ Begins(r)
  /\ Finish(r, documents_body)
  /\ processed_files' = <<>>
  /\ UNCHANGED <<vectorstore, qa_chain, embeddings, store, started, pure>>
  /\ UNCHANGED script

\* lines 427-433
list_documents(r) ==
  /\ Begins(r)
  /\ Finish(r, documents_body)
  /\ UNCHANGED <<vectorstore, qa_chain, embeddings, processed_files, store,
                 started, pure>>
  /\ UNCHANGED script

(***************************************************************************)
(* reload_internal_documents                                               *)
(***************************************************************************)
\* the response of lines 266-281 for what load_internal_documents returned and
\* whether create_qa_chain returned.  The HTTPException(404) of line 275 is
\* raised inside the try and caught by the handler's own `except Exception`
reload_response(ret, files, chainOk) ==
  IF ret /\ chainOk
  THEN [op |-> "reload", status |-> 200,
        message |-> "Internal documents reloaded successfully",
        documents_loaded |-> files,
        total_documents |-> Len(files)]
  ELSE IF ret
  THEN [op |-> "reload", status |-> 500,
        detail |-> "Error reloading documents: create_qa_chain raised"]
  ELSE [op |-> "reload", status |-> 500,
        detail |-> "Error reloading documents: 404: No documents found in internal_documents directory"]

reload_internal_documents(r) ==
  /\ Begins(r)
  /\ \E run \in LoadRuns :
       /\ Len(run.dir) <= MaxFiles
       /\ Len(run.res.texts) <= MaxChunks
       /\ \E qaOk \in Outcomes(run.res.ret) :
          \E id \in {FreshId(Targets)} :
          \E vs \in {IF run.res.ret THEN id ELSE 0} :
          \E chain \in {create_qa_chain(vs, qaOk)} :
            /\ vectorstore' = vs
            /\ qa_chain' = chain.chain
            /\ processed_files' = run.res.appended
            /\ embeddings' = (embeddings \/ run.res.emb)
            /\ Respond(r, reload_response(run.res.ret, run.res.appended,
                                           chain.ok), run.dir, FALSE)
            /\ store' = Collect([store EXCEPT ![id] = run.res.texts],
                                Live(vs, chain.chain, loc'))
            /\ pure' = (vs = 0 /\ run.res.appended = <<>>)
  /\ UNCHANGED <<started>>
  /\ UNCHANGED script

(***************************************************************************)
(* initialize_default                                                      *)
(***************************************************************************)
\* What lines 286-337 do.  res: what load_internal_documents did; root: the
\* default file found in the working directory ("" for none); cv: what
\* create_vectorstore(root) does; qaOk: create_qa_chain returns.
\* made: a new index was assigned to vectorstore; texts: its entries;
\* chained: qa_chain was assigned; files: processed_files afterwards
initialize_default_outcome(res, root, cv, qaOk) ==
  IF res.ret
  THEN [made |-> TRUE, texts |-> res.texts, chained |-> qaOk,
        files |-> processed_files \o res.appended, emb |-> TRUE,
        resp |-> IF qaOk
                 THEN [op |-> "initialize", status |-> 200,
                       message |-> "System initialized with internal documents successfully",
                       documents |-> processed_files \o res.appended,
                       kb_status |-> "ready"]
                 ELSE [op |-> "initialize", status |-> 500,
                       detail |-> "Internal Server Error"]]
  ELSE IF root = ""
  THEN [made |-> FALSE, texts |-> <<>>, chained |-> FALSE,
        files |-> processed_files \o res.appended, emb |-> res.emb,
        resp |-> [op |-> "initialize", status |-> 404,
                  detail |-> "No documents found"]]
  ELSE IF ~cv.ok
  THEN [made |-> FALSE, texts |-> <<>>, chained |-> FALSE,
        files |-> processed_files \o res.appended, emb |-> res.emb \/ cv.emb,
        resp |-> [op |-> "initialize", status |-> 500,
                  detail |-> "Error initializing system"]]
  ELSE IF ~qaOk
  THEN [made |-> TRUE, texts |-> cv.texts, chained |-> FALSE,
        files |-> processed_files \o res.appended, emb |-> TRUE,
        resp |-> [op |-> "initialize", status |-> 500,
                  detail |-> "Error initializing system"]]
  ELSE [made |-> TRUE, texts |-> cv.texts, chained |-> TRUE,
        files |-> <<root>>, emb |-> TRUE,
        resp |-> [op |-> "initialize", status |-> 200,
                  message |-> "System initialized with FCA Combined Handbook successfully",
                  filename |-> root, kb_status |-> "ready"]]

initialize_default(r) ==
  /\ Begins(r)
  /\ \E run \in LoadRuns :
       /\ Len(processed_files) + Len(run.dir) <= MaxFiles
       /\ Len(run.res.texts) <= MaxChunks
       /\ \E root \in IF run.res.ret THEN {""} ELSE RootFiles :
          \E embOk \in Outcomes(root # "") :
          \E cv \in {create_vectorstore(root, embOk)} :
          \E qaOk \in Outcomes(run.res.ret \/ cv.ok) :
          \E out \in {initialize_default_outcome(run.res, root, cv, qaOk)} :
          \E id \in {FreshId(IF out.chained THEN Targets
                             ELSE Live(0, qa_chain, loc))} :
          \E vs \in {IF out.made THEN id ELSE vectorstore} :
          \E qa \in {IF out.chained THEN id ELSE qa_chain} :
            /\ vectorstore' = vs
            /\ qa_chain' = qa
            /\ processed_files' = out.files
            /\ embeddings' = (embeddings \/ out.emb)
            /\ Respond(r, out.resp, run.dir, FALSE)
            /\ store' = Collect(IF out.made
                                THEN [store EXCEPT ![id] = out.texts]
                                ELSE store,
                                Live(vs, qa, loc'))
            /\ pure' = (pure /\ ~out.made /\ out.files = processed_files)
  /\ UNCHANGED <<started>>
  /\ UNCHANGED script

(***************************************************************************)
(* startup_event: runs once before the first request is served.  If        *)
(* create_qa_chain raises, the application does not start.                 *)
(***************************************************************************)
startup_event ==
  /\ started = "boot"
  /\ \E run \in LoadRuns :
       /\ Len(run.dir) <= MaxFiles
       /\ Len(run.res.texts) <= MaxChunks
       /\ \E qaOk \in Outcomes(run.res.ret) :
          \E id \in {FreshId({})} :
          \E vs \in {IF run.res.ret THEN id ELSE 0} :
          \E chain \in {create_qa_chain(vs, qaOk)} :
            /\ vectorstore' = vs
            /\ qa_chain' = chain.chain
            /\ processed_files' = processed_files \o run.res.appended
            /\ embeddings' = run.res.emb
            /\ store' = [store EXCEPT ![id] = run.res.texts]
            /\ started' = (IF run.res.ret /\ ~chain.ok THEN "failed"
                           ELSE "serving")
            /\ pure' = (vs = 0 /\ run.res.appended = <<>>)
  /\ UNCHANGED <<waiting, pc, loc, loop, response, last>>
  /\ UNCHANGED script

(***************************************************************************)
(* The specification.                                                      *)
(***************************************************************************)
Next ==
  \/ startup_event
  \/ Arrive
  \/ \E r \in Reqs :
       \/ UploadBegin(r)
       \/ UploadCreate(r)
       \/ UploadAdd(r)
       \/ UploadInsert(r)
       \/ UploadChain(r)
       \/ QueryBegin(r)
       \/ QueryInvoke(r)
       \/ clear_knowledge_base(r)
       \/ health_check(r)
       \/ list_documents(r)
       \/ reload_internal_documents(r)
       \/ initialize_default(r)

Spec == Init /\ [][Next]_vars

(***************************************************************************)
(* rag_chatbot.py, lines 14-17: the script loads a PDF and splits its      *)
(* text.  The text is any of Texts: one run of a letter, or two runs with  *)
(* a blank line between them.  The splitter has the sizes of the script or *)
(* those of app.py.                                                        *)
(***************************************************************************)
Texts ==
  {Rep("A", 50 * i) : i \in 1..MaxText}
    \cup {cat(cat(Rep("A", 50 * p[1]), separator), Rep("B", 50 * p[2])) :
            p \in {q \in (1..MaxText) \X (1..MaxText) :
                     q[1] + q[2] <= MaxText}}

Configs ==
  {<<script_chunk_size, script_chunk_overlap>>, <<chunk_size, chunk_overlap>>}

ScriptInit ==
  /\ vectorstore = 0
  /\ qa_chain = 0
  /\ embeddings = FALSE
  /\ processed_files = <<>>
  /\ store = [i \in IndexIds |-> <<>>]
  /\ started = "boot"
  /\ waiting = <<>>
  /\ pc = [r \in Reqs |-> "idle"]
  /\ loc = [r \in Reqs |-> NoLoc]
  /\ loop = 0
  /\ response = NoResponse
  /\ last = NoLast
  /\ pure = TRUE
  /\ script \in {[pc |-> "loaded", text |-> t, size |-> c[1],
                  overlap |-> c[2], chunks |-> <<>>] :
                   t \in Texts, c \in Configs}

\* line 17: chunks = splitter.split_documents(docs)
script_split ==
  /\ script.pc = "loaded"
  /\ script' = [script EXCEPT
                  !.pc = "split",
                  !.chunks = split_text(script.text, script.size,
                                        script.overlap)]
  /\ UNCHANGED <<vectorstore, qa_chain, embeddings, processed_files, store,
                 started, waiting, pc, loc, loop, response, last, pure>>

ScriptNext == script_split

ScriptSpec == ScriptInit /\ [][ScriptNext]_vars

(***************************************************************************)
(* The shapes of the knowledge base.                                       *)
(***************************************************************************)
\* no handler is between its first and its last statement
AllIdle == \A r \in Reqs : pc[r] = "idle"

Empty == vectorstore = 0 /\ qa_chain = 0 /\ processed_files = <<>>

Ready == vectorstore # 0 /\ qa_chain # 0 /\ processed_files # <<>>

(***************************************************************************)
(* C1: a query that starts while there is no active index is rejected with *)
(* the not-initialized error, whatever requests came before, failed ones   *)
(* included: its handler does not go on to the chain, and no query is at   *)
(* the chain while there is no active index, so none returns an answer.    *)
(***************************************************************************)
C1_QueryOnEmptyRejected ==
  [][\A r \in Reqs :
       /\ pc[r] = "invoke" => vectorstore # 0 /\ qa_chain # 0
       /\ vectorstore = 0 /\ pc[r] = "idle" =>
            /\ pc'[r] # "invoke"
            /\ response' # response /\ response'.op = "query" =>
                 response' = NotInitialized]_vars

\* a query was rejected after a reload that failed part-way had left a
\* filename in the registry
C1_Witness ==
  /\ response = NotInitialized
  /\ vectorstore = 0
  /\ processed_files # <<>>
  /\ AllIdle

(***************************************************************************)
(* C2: between requests the knowledge base is Empty or Ready, nothing      *)
(* else, also after requests in which loading, embedding or the creation   *)
(* of the QA chain failed.                                                 *)
(***************************************************************************)
C2_EmptyOrReady == started = "serving" /\ AllIdle => Empty \/ Ready

(***************************************************************************)
(* Uploads, as their handler's steps: slot r is in upload_pdf, and the     *)
(* step that ends it sends an error.                                       *)
(***************************************************************************)
InUpload(r) == pc[r] \in {"create", "add", "insert", "chain"}

UploadFails(r) == InUpload(r) /\ pc'[r] = "idle" /\ response'.status # 200

(***************************************************************************)
(* C3: an upload that found the knowledge base Empty and failed at any     *)
(* step, the creation of the QA chain included, leaves it Empty.           *)
(***************************************************************************)
C3_FailedUploadOnEmptyStaysEmpty ==
  [][\A r \in Reqs :
       /\ UploadFails(r)
       /\ loc[r].pre.vectorstore = 0
       /\ loc[r].pre.qa_chain = 0
       /\ loc[r].pre.files = <<>>
       => Empty']_vars

(***************************************************************************)
(* C4: an upload that found the knowledge base Ready and failed at any     *)
(* step leaves the index contents and the registry as they were, and the   *)
(* knowledge base Ready.                                                   *)
(***************************************************************************)
C4_FailedUploadOnReadyChangesNothing ==
  [][\A r \in Reqs :
       /\ UploadFails(r)
       /\ loc[r].pre.vectorstore # 0
       /\ loc[r].pre.qa_chain # 0
       /\ loc[r].pre.files # <<>>
       => /\ Ready'
          /\ processed_files' = loc[r].pre.files
          /\ Contents(vectorstore)' = loc[r].pre.contents]_vars

(***************************************************************************)
(* C5: when the directory holds one valid file and one that fails to load, *)
(* a reload reports success for the valid file, whose chunks are then the  *)
(* index and whose name is the registry.                                   *)
(***************************************************************************)
\* a file that loads and has text
Valid(f) == Loads(f) /\ SelectSeq(Chunks(f), NonBlank) # <<>>

OneValidOneCorrupt(dir) ==
  /\ Len(dir) = 2
  /\ \E i, j \in 1..2 : Valid(dir[i]) /\ ~Loads(dir[j])

C5_DirectoryPartialSuccess ==
  response.op = "reload" /\ AllIdle /\ OneValidOneCorrupt(last.globbed) =>
    \E i \in 1..2 :
      /\ Valid(last.globbed[i])
      /\ response.status = 200
      /\ response.documents_loaded = <<last.globbed[i]>>
      /\ response.total_documents = 1
      /\ processed_files = <<last.globbed[i]>>
      /\ vectorstore # 0
      /\ Contents(vectorstore) = all_chunks(<<last.globbed[i]>>, 1)

(***************************************************************************)
(* C6: from every reachable state clear_knowledge_base leaves the          *)
(* knowledge base Empty: no index, no chain, no registry, no index alive.  *)
(* What the status endpoint, the document listing and a query then answer  *)
(* is what they answer in the initial state.  The state it leaves does not *)
(* depend on the state it found, so a second reset right after the first   *)
(* changes nothing.                                                        *)
(***************************************************************************)
\* what GET /health and GET /documents answer before anything was ingested
InitialHealth ==
  [op |-> "health", status |-> 200,
   vectorstore_initialized |-> FALSE,
   qa_chain_initialized |-> FALSE,
   processed_files |-> <<>>,
   internal_docs_loaded |-> FALSE]

InitialDocuments ==
  [op |-> "documents", status |-> 200,
   documents |-> <<>>, count |-> 0, vectorstore_initialized |-> FALSE]

C6_ResetGivesInitialEmpty ==
  [][\A r \in Reqs :
       clear_knowledge_base(r) =>
         /\ Empty'
         /\ globals' = <<0, 0, <<>>, [i \in IndexIds |-> <<>>]>>
         /\ health_body' = InitialHealth
         /\ documents_body' = InitialDocuments
         /\ response.op = "clear" => globals' = globals]_vars

\* a reset has answered after some request had got as far as embedding
C6_Witness ==
  /\ response.op = "clear"
  /\ response.status = 200
  /\ embeddings
  /\ AllIdle
  /\ Empty

(***************************************************************************)
(* C7: a retrieval runs while no upload is between its first and its last  *)
(* statement (resets and directory loads are single steps of the loop),    *)
(* and the index it reads holds documents in full: of every document, each *)
(* chunk as often as every other.  No interleaving of arrivals changes     *)
(* that.                                                                   *)
(***************************************************************************)
Occurrences(entries, c) == Cardinality({k \in DOMAIN entries : entries[k] = c})

\* the directory loader stamps its chunks with the filename; uploads do not
WholeDocuments(entries) ==
  \A d \in Loadable : \A stamp \in {"None", d} :
    \A i, j \in DOMAIN Chunks(d) :
      Occurrences(entries, Stamp(Chunks(d)[i], stamp))
        = Occurrences(entries, Stamp(Chunks(d)[j], stamp))

C7_RetrievalSeesWholeIndex ==
  \A r \in Reqs :
    pc[r] = "invoke" =>
      /\ \A q \in Reqs \ {r} : pc[q] = "idle"
      /\ qa_chain # 0
      /\ store[qa_chain] # <<>>
      /\ WholeDocuments(store[qa_chain])

\* a query is about to retrieve from an index that holds the two chunks of
\* an uploaded b.pdf, while another request waits for the loop
C7_Witness ==
  \E r \in Reqs :
    /\ pc[r] = "invoke"
    /\ waiting # <<>>
    /\ Len(store[qa_chain]) >= 3
    /\ \E k \in DOMAIN store[qa_chain] :
         /\ store[qa_chain][k].source = "b.pdf"
         /\ store[qa_chain][k].source_file = "None"

(***************************************************************************)
(* C8: uploads take effect one after the other.  While an upload is        *)
(* between its first and its last statement no other handler is, and an    *)
(* upload that succeeds leaves the state that running it alone on the      *)
(* state it found gives: on no index, a new index of its document and a    *)
(* registry of its name; on an index, that index and that registry         *)
(* extended by its document.  The chain then reads that index, and the     *)
(* response lists that registry.  So of two overlapping uploads that both  *)
(* succeed the second finds what the first left, and neither document is   *)
(* lost.                                                                   *)
(***************************************************************************)
UploadSucceeds(r) ==
  InUpload(r) /\ pc'[r] = "idle" /\ response'.status = 200

C8_UploadsLinearized ==
  [][\A r \in Reqs :
       UploadSucceeds(r) =>
         /\ \A q \in Reqs \ {r} : pc[q] = "idle"
         /\ vectorstore' # 0
         /\ qa_chain' = vectorstore'
         /\ processed_files' =
              IF loc[r].pre.vectorstore = 0 THEN <<loc[r].file>>
              ELSE Append(loc[r].pre.files, loc[r].file)
         /\ Contents(vectorstore)' =
              IF loc[r].pre.vectorstore = 0
              THEN SelectSeq(Chunks(loc[r].file), NonBlank)
              ELSE loc[r].pre.contents \o Chunks(loc[r].file)
         /\ loc[r].pre.vectorstore # 0 => vectorstore' = loc[r].pre.vectorstore
         /\ response'.all_documents = processed_files'
         /\ response'.total_documents = Len(processed_files')]_vars

\* the upload of b.pdf arrived while the upload of a.pdf, which had found no
\* index, held the loop; both succeeded
C8_Witness ==
  /\ response.op = "upload"
  /\ response.status = 200
  /\ response.filename = "b.pdf"
  /\ last.behind = "upload"
  /\ AllIdle
  /\ processed_files = <<"a.pdf", "b.pdf">>
  /\ Contents(vectorstore) = Chunks("a.pdf") \o Chunks("b.pdf")
  /\ qa_chain = vectorstore

(***************************************************************************)
(* C9: after successful uploads only, starting from Empty, the registry    *)
(* and the index are determined by which documents were uploaded, not by   *)
(* their order: the chunks in the index are the chunks of the registered   *)
(* documents, every registered document with every chunk, and the chain    *)
(* retrieves from that index.                                              *)
(***************************************************************************)
Range(seq) == {seq[k] : k \in DOMAIN seq}

C9_UploadOrderImmaterial ==
  pure /\ AllIdle /\ processed_files # <<>> =>
    /\ vectorstore # 0
    /\ qa_chain = vectorstore
    /\ Range(processed_files) \subseteq Loadable
    /\ Range(Contents(vectorstore))
         = UNION {Range(Chunks(f)) : f \in Range(processed_files)}

\* b.pdf was uploaded, then a.pdf, and a query has retrieved chunks of both
C9_Witness ==
  /\ pure
  /\ AllIdle
  /\ processed_files = <<"b.pdf", "a.pdf">>
  /\ response.op = "query"
  /\ response.status = 200
  /\ \E i, j \in DOMAIN response.source_documents :
       /\ response.source_documents[i].metadata.source = "a.pdf"
       /\ response.source_documents[j].metadata.source = "b.pdf"

(***************************************************************************)
(* The excerpts of the query answered last, while the index it read is     *)
(* still as it was: no handler has started since.                          *)
(***************************************************************************)
QueryAnswered == response.op = "query" /\ response.status = 200 /\ AllIdle

\* the last n characters of s are the continuation marker
EndsWithMarker(s) ==
  length(s) >= 3 /\ s = cat(prefix(s, length(s) - 3), Ellipsis)

\* x is the excerpt of an entry e of the index: same metadata, same first
\* PreviewMax characters
ExcerptOf(x, e) ==
  /\ x.metadata = metadata(e)
  /\ prefix(x.content, PreviewMax) = prefix(e.page_content, PreviewMax)

(***************************************************************************)
(* C10, as claimed: a successful query returns at most retrieval_k         *)
(* excerpts, each of at most PreviewMax characters, and an excerpt ends    *)
(* with "..." if and only if the chunk it was taken from is longer than    *)
(* PreviewMax characters.                                                  *)
(***************************************************************************)
C10_ExcerptsWithinMaximum ==
  QueryAnswered =>
    /\ Len(response.source_documents) <= retrieval_k
    /\ \A j \in DOMAIN response.source_documents :
         \E x \in {response.source_documents[j]} :
           /\ length(x.content) <= PreviewMax
           /\ \E e \in Range(store[qa_chain]) :
                /\ ExcerptOf(x, e)
                /\ EndsWithMarker(x.content)
                     <=> length(e.page_content) > PreviewMax

(***************************************************************************)
(* C10, as the code has it: a successful query returns at most retrieval_k *)
(* excerpts.  The excerpt of a chunk of at most PreviewMax characters is   *)
(* the chunk's text, unchanged; the excerpt of a longer chunk is its first *)
(* PreviewMax characters followed by "...", PreviewMax + 3 characters in   *)
(* all.  So an excerpt is longer than PreviewMax exactly when its chunk    *)
(* was cut, and then it ends with the marker.                              *)
(***************************************************************************)
C10_ExcerptsCutWithMarker ==
  QueryAnswered =>
    /\ Len(response.source_documents) <= retrieval_k
    /\ \A j \in DOMAIN response.source_documents :
         \E x \in {response.source_documents[j]} :
         \E e \in Range(store[qa_chain]) :
           /\ ExcerptOf(x, e)
           /\ IF length(e.page_content) <= PreviewMax
              THEN x.content = e.page_content
              ELSE /\ length(x.content) = PreviewMax + 3
                   /\ EndsWithMarker(x.content)

\* three excerpts out of an index of four entries: one cut from the 250
\* characters of b.pdf's first chunk, one the whole second chunk of a.pdf,
\* which itself ends in "..."
C10_Witness ==
  /\ QueryAnswered
  /\ Len(store[qa_chain]) > retrieval_k
  /\ Len(response.source_documents) = retrieval_k
  /\ \E i, j \in DOMAIN response.source_documents :
       /\ length(response.source_documents[i].content) = PreviewMax + 3
       /\ response.source_documents[i].metadata.source = "b.pdf"
       /\ length(response.source_documents[j].content) <= PreviewMax
       /\ EndsWithMarker(response.source_documents[j].content)
       /\ response.source_documents[j].metadata.source = "a.pdf"

(***************************************************************************)
(* C11: in every reachable state no index holds an entry whose text is     *)
(* empty after trimming whitespace, whichever path made the entry: the     *)
(* first upload, a later upload, or the directory load.  (The splitter     *)
(* makes no blank chunk; create_vectorstore and load_internal_documents    *)
(* filter again, add_to_vectorstore does not.)                             *)
(***************************************************************************)
C11_NoBlankEntries ==
  \A i \in IndexIds : \A k \in DOMAIN store[i] : NonBlank(store[i][k])

\* the all-whitespace blank.pdf was offered to an index that an earlier
\* upload had built, and was refused
C11_Witness ==
  /\ response = UploadError("blank.pdf")
  /\ AllIdle
  /\ vectorstore # 0
  /\ Len(Contents(vectorstore)) >= 2
  /\ Contents(vectorstore)[1].source_file = "None"

(***************************************************************************)
(* C12: GET /health and GET /documents are pure reads.  In every state     *)
(* they leave the index, the chain and the registry as they are and answer *)
(* with what these hold, and what they answer says "no index, no           *)
(* documents" exactly when the knowledge base is Empty.                    *)
(***************************************************************************)
C12_StatusReadsOnly ==
  [][\A r \in Reqs :
       /\ health_check(r) =>
            /\ globals' = globals
            /\ response' = health_body
            /\ (/\ ~response'.vectorstore_initialized
                /\ response'.processed_files = <<>>
                /\ ~response'.internal_docs_loaded) <=> Empty
       /\ list_documents(r) =>
            /\ globals' = globals
            /\ response' = documents_body
            /\ (/\ ~response'.vectorstore_initialized
                /\ response'.count = 0) <=> Empty]_vars

\* the listing of a knowledge base that is neither Empty nor Ready: a name
\* in the registry and no index
C12_Witness ==
  /\ response.op = "documents"
  /\ response = documents_body
  /\ response.count = 1
  /\ ~response.vectorstore_initialized
  /\ AllIdle

(***************************************************************************)
(* C13: a query fails as one unit.  The step in which the chain runs ends  *)
(* either with an answer and its excerpts or with an error that carries    *)
(* neither, and when the generator raises it is the error; in every case   *)
(* the index, the chain and the registry are what they were.               *)
(***************************************************************************)
C13_QueryFailsAsOneUnit ==
  [][\A r \in Reqs :
       pc[r] = "invoke" /\ pc'[r] = "idle" =>
         /\ globals' = globals
         /\ response'.op = "query"
         /\ IF response'.status = 200
            THEN {"answer", "source_documents"} \subseteq DOMAIN response'
            ELSE /\ response'.status = 500
                 /\ DOMAIN response' \cap {"answer", "source_documents"} = {}
                 /\ response'.detail[1] = "Error processing query"]_vars

\* the generator raised during a query on a Ready knowledge base
C13_Witness ==
  /\ response = QueryError("generator raises")
  /\ AllIdle
  /\ Ready

(***************************************************************************)
(* C14: a document that fails to load does not touch the index.  When the  *)
(* knowledge base is Ready and a request meets a file that PyPDFLoader     *)
(* cannot load (the uploaded file, or a file of the directory), the index  *)
(* that was active before the request is active after it, with the same    *)
(* entries.                                                                *)
(***************************************************************************)
\* glob listed a file that does not load
LoadFailed(dir) == \E i \in DOMAIN dir : ~Loads(dir[i])

C14_LoadErrorLeavesIndex ==
  [][\A r \in Reqs :
       /\ /\ reload_internal_documents(r) \/ initialize_default(r)
          /\ Ready
          /\ LoadFailed(last'.globbed)
          => /\ vectorstore' = vectorstore
             /\ Contents(vectorstore)' = Contents(vectorstore)
       /\ /\ UploadFails(r)
          /\ ~Loads(loc[r].file)
          /\ loc[r].pre.vectorstore # 0
          /\ loc[r].pre.qa_chain # 0
          /\ loc[r].pre.files # <<>>
          => /\ vectorstore' = loc[r].pre.vectorstore
             /\ Contents(vectorstore)' = loc[r].pre.contents]_vars

(***************************************************************************)
(* C15: chunking by fixed windows.  Chunk i (from 0) of a text is its      *)
(* chunk_size characters from offset i * (chunk_size - chunk_overlap),     *)
(* fewer where the text ends, up to the chunk that reaches the end; and    *)
(* 600 characters with chunk_size 300 and chunk_overlap 50 give three      *)
(* chunks of 300, 300 and 70 characters.                                   *)
(***************************************************************************)
\* s[n:]
drop(s, n) ==
  LET upto(k) == length(SubSeq(s, 1, k))
      from(k) ==
        IF k = Len(s) THEN <<>>
        ELSE IF upto(k) = n THEN SubSeq(s, k + 1, Len(s))
        ELSE <<[c |-> s[k + 1].c, n |-> upto(k + 1) - n]>>
               \o SubSeq(s, k + 2, Len(s))
  IN  With(Max({k \in 0..Len(s) : upto(k) <= n}), from)

\* the windows of the claim
Windows(t, size, overlap) ==
  LET step == size - overlap
      n == Min({k \in 1..(length(t) + 1) : (k - 1) * step + size >= length(t)})
  IN  [i \in 1..n |-> prefix(drop(t, (i - 1) * step), size)]

C15_ChunkArithmetic ==
  script.pc = "split" =>
    /\ script.chunks = Windows(script.text, script.size, script.overlap)
    /\ /\ script.text = Rep("A", 600)
       /\ script.size = script_chunk_size
       /\ script.overlap = script_chunk_overlap
       => [i \in DOMAIN script.chunks |-> length(script.chunks[i])]
            = <<300, 300, 70>>

(***************************************************************************)
(* C16: between requests the registry and the active index agree.  Every   *)
(* name in the registry is a document all of whose chunks are in the       *)
(* active index, and every entry of the active index comes from a document *)
(* whose name is in the registry.                                          *)
(***************************************************************************)
\* the entries of the active index that come from file f
EntriesOf(f) ==
  SelectSeq(Contents(vectorstore), LAMBDA e : e.source = f)

\* every chunk of f is in the active index
Indexed(f) ==
  /\ Loads(f)
  /\ \A i \in DOMAIN Chunks(f) :
       \E k \in DOMAIN Contents(vectorstore) :
         /\ Contents(vectorstore)[k].source = f
         /\ Contents(vectorstore)[k].page_content = Chunks(f)[i].page_content

C16_RegistryAgreesWithIndex ==
  started = "serving" /\ AllIdle =>
    \A f \in UploadNames \cup DirNames \cup RootFiles :
      /\ f \in Range(processed_files) => Indexed(f)
      /\ EntriesOf(f) # <<>> => f \in Range(processed_files)

(***************************************************************************)
(* C17: the registry is a set.  Between requests no name is in             *)
(* processed_files more than once, so the count that GET /documents        *)
(* reports is the number of distinct documents.                            *)
(***************************************************************************)
C17_RegistryIsASet ==
  started = "serving" /\ AllIdle =>
    /\ \A i, j \in DOMAIN processed_files :
         processed_files[i] = processed_files[j] => i = j
    /\ documents_body.count = Cardinality(Range(processed_files))

(***************************************************************************)
(* C18: between requests, when qa_chain is set its retriever reads the     *)
(* index that vectorstore holds, so a query retrieves from the index that  *)
(* GET /health and GET /documents describe.                                *)
(***************************************************************************)
C18_ChainReadsActiveIndex ==
  started = "serving" /\ AllIdle /\ qa_chain # 0 =>
    /\ qa_chain = vectorstore
    /\ store[qa_chain] = Contents(vectorstore)

(***************************************************************************)
(* C19: a reload that finds no document it can load (an empty directory,   *)
(* or only files that fail to load or hold no text) answers 404 with the   *)
(* detail "No documents found in internal_documents directory".            *)
(***************************************************************************)
NothingLoadable(dir) == \A i \in DOMAIN dir : ~Valid(dir[i])

C19_ReloadWithoutDocumentsIs404 ==
  response.op = "reload" /\ AllIdle /\ NothingLoadable(last.globbed) =>
    /\ response.status = 404
    /\ response.detail = "No documents found in internal_documents directory"

(***************************************************************************)
(* C20: when an upload has answered, with success or with an error, the    *)
(* temporary file it wrote is gone.                                        *)
(***************************************************************************)
C20_TemporaryFileDeleted ==
  response.op = "upload" /\ AllIdle => ~last.tmp_left

====
